---- MODULE Spec2Model ----
(***************************************************************************)
(* Model of the two-party dialogue driver of this repository:              *)
(*   src/convo/interface_dilogue.py  (Streamlit UI, TurnBound sessions)    *)
(*   src/convo/dialog.py             (CLI, ContentMatch sessions)          *)
(*   src/convo/main.py               (inline shopkeeper/customer example)  *)
(* The turn loop itself is AutoGen's ConversableAgent.initiate_chat; it is *)
(* modelled at the places where the repository calls it, one action per    *)
(* message an agent receives.                                              *)
(***************************************************************************)
EXTENDS Integers, Sequences, FiniteSets, TLC

(* ------------------------------ bounds -------------------------------- *)

\* Largest "Maximum Dialogue Turns" the form is given in the model
\* (the widget allows up to 30).
MaxTurnsInput == 3

\* ConversableAgent's default max_consecutive_auto_reply, which no agent of
\* the repository overrides (the library's value is 100), scaled down.
MaxAutoReply == 3

\* number_input(min_value=1)
MinTurns == 1

\* Dialogues generated in one UI session.
MaxGenerations == 2

\* Seconds the clock advances during one UI session.
MaxNow == 1

(* ------------------------------- text --------------------------------- *)

\* str.lower() of one character.
LowerChar(c) ==
    CASE c = "A" -> "a" [] c = "B" -> "b" [] c = "C" -> "c" [] c = "D" -> "d"
      [] c = "E" -> "e" [] c = "F" -> "f" [] c = "G" -> "g" [] c = "H" -> "h"
      [] c = "I" -> "i" [] c = "J" -> "j" [] c = "K" -> "k" [] c = "L" -> "l"
      [] c = "M" -> "m" [] c = "N" -> "n" [] c = "O" -> "o" [] c = "P" -> "p"
      [] c = "Q" -> "q" [] c = "R" -> "r" [] c = "S" -> "s" [] c = "T" -> "t"
      [] c = "U" -> "u" [] c = "V" -> "v" [] c = "W" -> "w" [] c = "X" -> "x"
      [] c = "Y" -> "y" [] c = "Z" -> "z" [] OTHER -> c

\* str.lower(): every character lower-cased, the text taken half by half.
RECURSIVE LowerOf(_)
LowerOf(s) ==
    IF Len(s) = 0 THEN ""
    ELSE IF Len(s) = 1 THEN LowerChar(s)
    ELSE LowerOf(SubSeq(s, 1, Len(s) \div 2))
             \o LowerOf(SubSeq(s, Len(s) \div 2 + 1, Len(s)))

\* Python's `p in t` on strings: p occurs in t as a contiguous substring
\* (the empty string occurs in every string).
Contains(p, t) ==
    \E i \in 1..(Len(t) - Len(p) + 1) : SubSeq(t, i, i + Len(p) - 1) = p

IsSpace(c) == c \in {" ", "\t", "\n"}

RECURSIVE LStrip(_)
LStrip(s) ==
    IF Len(s) = 0 THEN ""
    ELSE IF IsSpace(SubSeq(s, 1, 1)) THEN LStrip(SubSeq(s, 2, Len(s)))
    ELSE s

RECURSIVE TakeWord(_)
TakeWord(s) ==
    IF Len(s) = 0 \/ IsSpace(SubSeq(s, 1, 1)) THEN ""
    ELSE SubSeq(s, 1, 1) \o TakeWord(SubSeq(s, 2, Len(s)))

\* situation.split() is the empty list when the text has no token.
HasToken(s) == LStrip(s) # ""

\* situation.split()[0], defined when HasToken(s).
FirstToken(s) == TakeWord(LStrip(s))

(* ------------------------------ inputs -------------------------------- *)

Names == {"", "Ann", "Bob"}
Situations == {"", " ", "math homework"}
Phrases == {"", "Goodbye"}
TurnInputs == MinTurns..MaxTurnsInput

TERMINATE == "TERMINATE"
FibPhrase == "I understand how to solve Fibonacci problems now"
FibLine == "I understand how to solve Fibonacci problems now! Thank you for your help."
ShopPhrase == "thank you for your service"

\* The student's line in another casing.
FibLineLowerCase == LowerOf(FibLine)

FibOpening ==
    "Today we're going to learn about the Fibonacci sequence. Have you heard of it before?"
ShopOpening == "What do you want to find?"
ShopFollowUp == "What did I ask you previously?"

\* Texts a reply-generation call may return in a session of each driver.
Replies(s) ==
    CASE s = "generate_dialogue" -> {"ok", TERMINATE}
      [] s \in {"create_dialogue", "generate_specific_dialogue"} ->
             {"ok", "GOODBYE then", TERMINATE}
      [] s = "generate_fibonacci_dialogue" ->
             {"ok", FibLine, FibLineLowerCase, TERMINATE}
      [] s = "main_py" -> {"ok", ShopPhrase, "Thank you for your service", TERMINATE}
      [] OTHER -> {}

\* Every text of the model: the phrases, the replies and the fixed lines.
Texts ==
    Phrases \cup {FibPhrase, ShopPhrase, FibOpening, ShopOpening, ShopFollowUp}
        \cup UNION {Replies(s) : s \in {"generate_dialogue", "create_dialogue",
                                         "generate_fibonacci_dialogue", "main_py"}}

\* str.lower() of the model's texts, computed once.
LowerTable == [t \in Texts |-> LowerOf(t)]

Lower(s) == LowerTable[s]

(* ------------------------------- state -------------------------------- *)

VARIABLES
    program,               \* the script that runs
    session,               \* the driver function that runs, "none" before one starts
    pc,                    \* where the program is
    AUTOGEN_AVAILABLE,     \* whether `from autogen import ...` succeeds
    dotenv,                \* what config_list_from_dotenv does: "ok", "empty", "raises"
    character1_name, character2_name, situation, max_turns, termination_condition,
    chat,                  \* the initiator's chat_messages[recipient]
    turn_counter,          \* turn_counter["count"]
    auto_reply,            \* _consecutive_auto_reply_counter of each agent
    to_reply,              \* the agent that received the last message
    result,                \* what the driver returned
    exc,                   \* the exception that ended the program, "none" if none
    ui,                    \* st.error / st.warning texts shown
    calls,                 \* reply-generation calls made
    dialogue_history,      \* st.session_state.dialogue_history
    now,                   \* int(time.time())
    generated,             \* dialogues main has stored so far
    download_data,         \* data of the "Download as Text" button, "" if none
    stopped_by,            \* why the chat ended: "none", "limit", "predicate", "default"
    stdout,                \* what dialog.py printed
    files,                 \* files written under saved_dialogues/
    save_clicks            \* clicks on "Save Dialogue to File"

inputs == <<character1_name, character2_name, situation, max_turns, termination_condition>>
env == <<program, AUTOGEN_AVAILABLE, dotenv, now>>
loop == <<chat, turn_counter, auto_reply, to_reply>>
stored == <<dialogue_history, download_data, generated>>
exported == <<stdout, files, save_clicks>>
vars == <<program, session, pc, AUTOGEN_AVAILABLE, dotenv, character1_name,
          character2_name, situation, max_turns, termination_condition, chat,
          turn_counter, auto_reply, to_reply, result, exc, ui, calls,
          dialogue_history, now, generated, download_data, stopped_by, stdout,
          files, save_clicks>>

Programs == {"interface_dilogue", "dialog_main", "dialog_specific", "main"}

None == [type |-> "None"]

Init ==
    /\ program \in Programs
    /\ session = "none"
    /\ pc = "load"
    /\ AUTOGEN_AVAILABLE \in BOOLEAN
    /\ dotenv \in {"ok", "empty", "raises"}
    /\ character1_name = ""
    /\ character2_name = ""
    /\ situation = ""
    /\ max_turns = MinTurns
    /\ termination_condition = ""
    /\ chat = <<>>
    /\ turn_counter = 0
    /\ auto_reply = [a \in {"A", "B"} |-> 0]
    /\ to_reply = "B"
    /\ result = None
    /\ exc = "none"
    /\ ui = {}
    /\ calls = 0
    /\ dialogue_history = <<>>
    /\ now = 0
    /\ generated = 0
    /\ download_data = ""
    /\ stopped_by = "none"
    /\ stdout = ""
    /\ files = <<>>
    /\ save_clicks = 0

(* ------------------------- termination predicates --------------------- *)

\* Faulty variant of is_max_turns_reached: the comparison is strict.
is_max_turns_reached_strict(count, max) ==
    [count |-> count + 1, ret |-> count + 1 > max]

\* interface_dilogue.py: the counter is incremented on every evaluation.
is_max_turns_reached(count, max) ==
    [count |-> count + 1, ret |-> count + 1 >= max]

\* Faulty variant of is_termination_msg: an empty condition matches nothing.
is_termination_msg_nonempty(condition, content) ==
    condition # "" /\ Contains(Lower(condition), Lower(content))

\* dialog.py, create_dialogue and generate_specific_dialogue.
is_termination_msg(condition, content) ==
    Contains(Lower(condition), Lower(content))

\* dialog.py, the student's lambda in generate_fibonacci_dialogue.
student_is_termination_msg(content) == Contains(FibPhrase, content)

\* main.py, the shopkeeper's lambda.
shopkeeper_is_termination_msg(content) == Contains(ShopPhrase, content)

\* The predicate of an agent constructed without is_termination_msg.
default_is_termination_msg(content) == content = TERMINATE

\* Faulty variant of PredicateHolder: the predicate is given to the agent
\* that starts the chat.
PredicateHolder_initiator == "A"

\* The agent the session's predicate is attached to: the recipient
\* (character2, student) everywhere but in main.py, where the shopkeeper
\* has it and starts the chat.
PredicateHolder == IF session = "main_py" THEN "A" ELSE "B"

\* Agent `who` evaluates its predicate on a message it received.
TerminationMsg(who, content) ==
    IF who # PredicateHolder THEN default_is_termination_msg(content)
    ELSE CASE session = "generate_dialogue" ->
                  is_max_turns_reached(turn_counter, max_turns).ret
           [] session \in {"create_dialogue", "generate_specific_dialogue"} ->
                  is_termination_msg(termination_condition, content)
           [] session = "generate_fibonacci_dialogue" ->
                  student_is_termination_msg(content)
           [] session = "main_py" -> shopkeeper_is_termination_msg(content)
           [] OTHER -> FALSE

\* What the receiving agent decides before it generates a reply
\* (human_input_mode="NEVER"): stop at the auto-reply limit, else stop when
\* its predicate holds of the message, else reply.
check_termination(who, content) ==
    IF auto_reply[who] >= MaxAutoReply THEN "exit"
    ELSE IF TerminationMsg(who, content) THEN "exit"
    ELSE "reply"

\* Why agent `who` stops the chat when it does.
StopReason(who) ==
    IF auto_reply[who] >= MaxAutoReply THEN "limit"
    ELSE IF who = PredicateHolder THEN "predicate"
    ELSE "default"

\* turn_counter["count"] after agent `who` has handled a message: the
\* predicate runs only when the auto-reply limit has not stopped the agent.
CountAfter(who) ==
    IF /\ session = "generate_dialogue"
       /\ who = PredicateHolder
       /\ auto_reply[who] < MaxAutoReply
    THEN is_max_turns_reached(turn_counter, max_turns).count
    ELSE turn_counter

(* ------------------------------ transcript ---------------------------- *)

Other(who) == IF who = "A" THEN "B" ELSE "A"

AgentName(who) ==
    CASE session = "generate_fibonacci_dialogue" ->
             IF who = "A" THEN "Teacher" ELSE "Student"
      [] session = "main_py" -> IF who = "A" THEN "shopkeeper" ELSE "customer"
      [] OTHER -> IF who = "A" THEN character1_name ELSE character2_name

\* An entry of the initiator's chat history: its own messages are
\* "assistant", the recipient's are "user".
Turn(who, content) ==
    [role |-> IF who = "A" THEN "assistant" ELSE "user",
     name |-> AgentName(who),
     content |-> content]

ChatResult(history) == [type |-> "ChatResult", chat_history |-> history]

starter_options(c2, s) ==
    << "Hello " \o c2 \o ", I wanted to talk about " \o FirstToken(s) \o "...",
       "Hey " \o c2 \o ", do you have a moment? I need to discuss "
           \o FirstToken(s) \o ".",
       "Hi " \o c2 \o "! I've been thinking about " \o FirstToken(s) \o "." >>

PlaceholderNote ==
    "This is a placeholder dialogue. To generate real dialogues, please configure your API keys properly."

\* Faulty variant of generate_dialogue_fallback: the response is attributed to
\* character1 as well.
generate_dialogue_fallback_same_speaker(c1, c2, s, n, k) ==
    [type |-> "dict",
     messages |->
       << [role |-> "assistant", name |-> c1, content |-> starter_options(c2, s)[k]],
          [role |-> "system", content |-> PlaceholderNote],
          [role |-> "assistant", name |-> c1,
           content |-> "Hi " \o c1 \o "! Sure, what about " \o FirstToken(s)
                           \o " did you want to discuss?"],
          [role |-> "assistant", name |-> c1,
           content |-> "Well, regarding " \o s
                           \o ", I was hoping we could work through it together."] >>]

\* Faulty variant of generate_dialogue_fallback: the placeholder note is left out.
generate_dialogue_fallback_untagged(c1, c2, s, n, k) ==
    [type |-> "dict",
     messages |->
       << [role |-> "assistant", name |-> c1, content |-> starter_options(c2, s)[k]],
          [role |-> "assistant", name |-> c2,
           content |-> "Hi " \o c1 \o "! Sure, what about " \o FirstToken(s)
                           \o " did you want to discuss?"],
          [role |-> "assistant", name |-> c1,
           content |-> "Well, regarding " \o s
                           \o ", I was hoping we could work through it together."] >>]

\* generate_dialogue_fallback with random.choice picking option k; defined
\* when HasToken(s), an IndexError otherwise. max_turns is not used.
generate_dialogue_fallback(c1, c2, s, n, k) ==
    [type |-> "dict",
     messages |->
       << [role |-> "assistant", name |-> c1, content |-> starter_options(c2, s)[k]],
          [role |-> "system", content |-> PlaceholderNote],
          [role |-> "assistant", name |-> c2,
           content |-> "Hi " \o c1 \o "! Sure, what about " \o FirstToken(s)
                           \o " did you want to discuss?"],
          [role |-> "assistant", name |-> c1,
           content |-> "Well, regarding " \o s
                           \o ", I was hoping we could work through it together."] >>]

\* initialize_model_config() returned a configuration.
model_config == AUTOGEN_AVAILABLE /\ dotenv = "ok"

DialogueKey(c1, c2, t) == c1 \o "_" \o c2 \o "_" \o ToString(t)

(* ------------------------------- export ------------------------------ *)

\* dict.get(key, default) on a message.
Get(m, key, default) == IF key \in DOMAIN m THEN m[key] ELSE default

\* extract_messages: the messages of a fallback dict as they are; the entries
\* of a ChatResult's chat_history rebuilt, each with role "assistant".
extract_messages(dialogue) ==
    CASE dialogue.type = "dict" -> dialogue.messages
      [] dialogue.type = "ChatResult" ->
             [i \in 1..Len(dialogue.chat_history) |->
                 [role |-> "assistant",
                  name |-> Get(dialogue.chat_history[i], "name", "Unknown"),
                  content |-> Get(dialogue.chat_history[i], "content", "")]]
      [] OTHER -> <<>>

\* The speaker the text renderings print for a message.
Speaker(message) ==
    IF Get(message, "role", "None") = "assistant"
    THEN Get(message, "name", "Unknown")
    ELSE Get(message, "role", "Unknown")

\* The loop of format_dialogue_text: system messages are skipped.
RECURSIVE format_messages_text(_)
format_messages_text(messages) ==
    IF messages = <<>> THEN ""
    ELSE (IF Get(Head(messages), "role", "None") = "system" THEN ""
          ELSE Speaker(Head(messages)) \o ": " \o Get(Head(messages), "content", "")
                   \o "\n\n")
             \o format_messages_text(Tail(messages))

format_dialogue_text(dialogue, c1, c2, s) ==
    "Dialogue between " \o c1 \o " and " \o c2 \o "\n"
        \o "Situation: " \o s \o "\n\n"
        \o format_messages_text(extract_messages(dialogue))

\* json.dump of a string: quoted, with quote, backslash and newline escaped.
JsonEscapeChar(c) ==
    CASE c = "\"" -> "\\\""
      [] c = "\\" -> "\\\\"
      [] c = "\n" -> "\\n"
      [] OTHER -> c

\* Every character escaped, the text taken half by half.
RECURSIVE JsonEscape(_)
JsonEscape(s) ==
    IF Len(s) = 0 THEN ""
    ELSE IF Len(s) = 1 THEN JsonEscapeChar(s)
    ELSE JsonEscape(SubSeq(s, 1, Len(s) \div 2))
             \o JsonEscape(SubSeq(s, Len(s) \div 2 + 1, Len(s)))

json_dump_str(s) == "\"" \o JsonEscape(s) \o "\""

\* json.dump(data, f, indent=2) of the export record: every string of the
\* record and of its messages is written as a JSON string.
json_dump(data) ==
    [character1 |-> json_dump_str(data.character1),
     character2 |-> json_dump_str(data.character2),
     situation |-> json_dump_str(data.situation),
     timestamp |-> json_dump_str(data.timestamp),
     messages |-> [i \in 1..Len(data.messages) |->
                      [key \in DOMAIN data.messages[i] |->
                          json_dump_str(data.messages[i][key])]]]

\* save_dialogue_to_file: the file it writes, by name and content.
save_dialogue_to_file(dialogue, name1, name2, about) ==
    [filename |-> "saved_dialogues/dialogue_" \o name1 \o "_" \o name2 \o "_"
                      \o ToString(now) \o ".json",
     text |-> json_dump([character1 |-> name1,
                         character2 |-> name2,
                         situation |-> about,
                         timestamp |-> ToString(now),
                         messages |-> extract_messages(dialogue)])]

(* ------------------------ interface_dilogue.py ------------------------ *)

\* main, lines 442-470: the returned dialogue is stored under its key and
\* displayed, and its text rendering is handed to the download button.
ReturnToMain(d, c1, c2, s, n) ==
    /\ result' = d
    /\ generated' = generated + 1
    /\ download_data' = format_dialogue_text(d, c1, c2, s)
    /\ dialogue_history' =
           (DialogueKey(c1, c2, now) :>
                [dialogue |-> d, character1 |-> c1, character2 |-> c2,
                 situation |-> s, max_turns |-> n]) @@ dialogue_history
    /\ pc' = "done"
    /\ exc' = exc

\* generate_dialogue, line 235: the fallback generator runs outside the try
\* block, so its IndexError on a situation without a token is not caught.
RunFallback(c1, c2, s, n) ==
    IF HasToken(s)
    THEN \E k \in 1..3 :
             ReturnToMain(generate_dialogue_fallback(c1, c2, s, n, k), c1, c2, s, n)
    ELSE /\ exc' = "IndexError"
         /\ pc' = "raised"
         /\ UNCHANGED <<result, stored>>

\* The script starts: the import is guarded, and main() resolves the
\* configuration on every run.
LoadInterface ==
    /\ pc = "load"
    /\ program = "interface_dilogue"
    /\ pc' = "form"
    /\ ui' = IF AUTOGEN_AVAILABLE /\ dotenv = "raises"
             THEN ui \cup {"Error initializing model configuration"}
             ELSE ui
    /\ UNCHANGED <<env, exported, stopped_by, inputs, loop, session, result, exc, calls, stored>>

\* The form is submitted with all fields filled in... or not.
SubmitForm(c1, c2, s, n) ==
    /\ pc = "form"
    /\ character1_name' = c1
    /\ character2_name' = c2
    /\ situation' = s
    /\ max_turns' = n
    /\ UNCHANGED <<env, exported, stopped_by, termination_condition, chat, auto_reply, to_reply, calls>>
    /\ IF c1 = "" \/ c2 = "" \/ s = ""
       THEN /\ ui' = ui \cup {"Please fill in all required fields."}
            /\ pc' = "rejected"
            /\ UNCHANGED <<session, turn_counter, result, exc, stored>>
       ELSE IF AUTOGEN_AVAILABLE /\ model_config
       THEN /\ session' = "generate_dialogue"
            /\ turn_counter' = 0
            /\ pc' = "starter"
            /\ UNCHANGED <<ui, result, exc, stored>>
       ELSE /\ session' = "generate_dialogue"
            /\ RunFallback(c1, c2, s, n)
            /\ UNCHANGED <<ui, turn_counter>>

(* ------------------------------ dialog.py ----------------------------- *)

\* `from autogen import ...` at the top of dialog.py is not guarded.
LoadDialog ==
    /\ pc = "load"
    /\ program \in {"dialog_main", "dialog_specific"}
    /\ IF AUTOGEN_AVAILABLE
       THEN pc' = (IF program = "dialog_main" THEN "menu" ELSE "api") /\ exc' = exc
       ELSE pc' = "raised" /\ exc' = "ImportError"
    /\ UNCHANGED <<env, exported, stopped_by, inputs, loop, session, result, ui, calls, stored>>

\* config_list_from_dotenv(...) followed by config_list[0]: what it raises,
\* "none" when a configuration is resolved.
ConfigError ==
    CASE dotenv = "raises" -> "ConfigError"
      [] dotenv = "empty" -> "IndexError"
      [] OTHER -> "none"

\* A ContentMatch session is set up: DialogueGenerator().create_dialogue or
\* generate_specific_dialogue, up to the starter_agent.generate_reply call.
StartContentMatch(fn, c1, c2, s, t) ==
    /\ character1_name' = c1
    /\ character2_name' = c2
    /\ situation' = s
    /\ termination_condition' = t
    /\ session' = fn
    /\ IF ConfigError = "none"
       THEN pc' = "starter" /\ exc' = exc
       ELSE pc' = "raised" /\ exc' = ConfigError
    /\ UNCHANGED <<env, exported, stopped_by, max_turns, loop, result, ui, calls, stored>>

\* main(), choice "2": the four inputs go to create_dialogue as typed.
CliCustom(c1, c2, s, t) ==
    /\ pc = "menu"
    /\ StartContentMatch("create_dialogue", c1, c2, s, t)

\* A caller of generate_specific_dialogue.
CallSpecific(c1, c2, s, t) ==
    /\ pc = "api"
    /\ StartContentMatch("generate_specific_dialogue", c1, c2, s, t)

\* main(), choice "1": generate_fibonacci_dialogue, the teacher opens with
\* a fixed line.
CliFibonacci ==
    /\ pc = "menu"
    /\ session' = "generate_fibonacci_dialogue"
    /\ IF ConfigError = "none"
       THEN /\ chat' = << [role |-> "assistant", name |-> "Teacher",
                           content |-> FibOpening] >>
            /\ to_reply' = "B"
            /\ pc' = "chat"
            /\ exc' = exc
       ELSE /\ pc' = "raised"
            /\ exc' = ConfigError
            /\ UNCHANGED <<chat, to_reply>>
    /\ UNCHANGED <<env, exported, stopped_by, inputs, turn_counter, auto_reply, result, ui, calls,
                   stored>>

\* main(), any other choice.
CliInvalid ==
    /\ pc = "menu"
    /\ pc' = "invalid"
    /\ UNCHANGED <<env, exported, stopped_by, inputs, loop, session, result, exc, ui, calls, stored>>

\* The loop of format_dialogue: every message gives a line, under its name
\* when its role is "assistant" and under its role otherwise.
RECURSIVE format_dialogue_lines(_)
format_dialogue_lines(messages) ==
    IF messages = <<>> THEN ""
    ELSE (IF Head(messages).role # "assistant" THEN Head(messages).role
          ELSE Head(messages).name)
             \o ": " \o Head(messages).content \o "\n\n"
             \o format_dialogue_lines(Tail(messages))

\* format_dialogue(dialogue): dialogue["messages"] is defined for a dict; a
\* ChatResult is not subscriptable.
format_dialogue(dialogue) ==
    IF dialogue.type = "dict"
    THEN [raises |-> "none",
          text |-> "\nFULL DIALOGUE:\n\n" \o format_dialogue_lines(dialogue.messages)]
    ELSE [raises |-> "TypeError", text |-> ""]

\* main(): print(format_dialogue(dialogue)) on what the driver returned.
PrintDialogue ==
    /\ pc = "done"
    /\ program = "dialog_main"
    /\ IF format_dialogue(result).raises = "none"
       THEN /\ stdout' = stdout \o format_dialogue(result).text \o "\n"
            /\ pc' = "printed"
            /\ exc' = exc
       ELSE /\ exc' = format_dialogue(result).raises
            /\ pc' = "raised"
            /\ stdout' = stdout
    /\ UNCHANGED <<env, inputs, loop, stored, session, result, ui, calls, stopped_by,
                   files, save_clicks>>

(* ------------------------------- main.py ------------------------------ *)

\* The script runs top to bottom: import, configuration, the two agents,
\* shopkeeper.initiate_chat with a fixed message.
LoadMain ==
    /\ pc = "load"
    /\ program = "main"
    /\ session' = "main_py"
    /\ IF ~AUTOGEN_AVAILABLE
       THEN pc' = "raised" /\ exc' = "ImportError" /\ UNCHANGED <<chat, to_reply>>
       ELSE IF ConfigError # "none"
       THEN pc' = "raised" /\ exc' = ConfigError /\ UNCHANGED <<chat, to_reply>>
       ELSE /\ chat' = << [role |-> "assistant", name |-> "shopkeeper",
                           content |-> ShopOpening] >>
            /\ to_reply' = "B"
            /\ pc' = "chat"
            /\ exc' = exc
    /\ UNCHANGED <<env, exported, stopped_by, inputs, turn_counter, auto_reply, result, ui, calls,
                   stored>>

(* ---------------------------- the turn loop --------------------------- *)

\* Faulty variant of GenerationRaised: generate_dialogue_with_autogen returns the
\* turns generated so far instead of None.
GenerationRaised_keeps_turns ==
    IF session = "generate_dialogue"
    THEN /\ ui' = ui \cup {"Error generating dialogue"}
         /\ ReturnToMain(ChatResult(chat), character1_name, character2_name,
                         situation, max_turns)
    ELSE /\ exc' = "GenerationError"
         /\ pc' = "raised"
         /\ UNCHANGED <<ui, result, stored>>

\* A reply-generation call raised. generate_dialogue_with_autogen catches
\* it, reports it and returns None, and generate_dialogue falls back; the
\* drivers of dialog.py and main.py let it propagate.
GenerationRaised ==
    IF session = "generate_dialogue"
    THEN /\ ui' = ui \cup {"Error generating dialogue"}
         /\ RunFallback(character1_name, character2_name, situation, max_turns)
    ELSE /\ exc' = "GenerationError"
         /\ pc' = "raised"
         /\ UNCHANGED <<ui, result, stored>>

\* starter_agent.generate_reply returns r, and character1.initiate_chat
\* sends it to character2.
StarterReply(r) ==
    /\ pc = "starter"
    /\ calls' = calls + 1
    /\ chat' = <<Turn("A", r)>>
    /\ auto_reply' = [a \in {"A", "B"} |-> 0]
    /\ to_reply' = "B"
    /\ pc' = "chat"
    /\ UNCHANGED <<env, exported, stopped_by, inputs, session, turn_counter, result, exc, ui, stored>>

\* starter_agent.generate_reply raises.
StarterFails ==
    /\ pc = "starter"
    /\ calls' = calls + 1
    /\ GenerationRaised
    /\ UNCHANGED <<env, exported, stopped_by, inputs, session, loop>>

\* The agent that received the last message replies with r, which the
\* other agent receives.
AgentReplies(r) ==
    /\ pc \in {"chat", "chat2"}
    /\ check_termination(to_reply, chat[Len(chat)].content) = "reply"
    /\ calls' = calls + 1
    /\ turn_counter' = CountAfter(to_reply)
    /\ auto_reply' = [auto_reply EXCEPT ![to_reply] = @ + 1]
    /\ chat' = Append(chat, Turn(to_reply, r))
    /\ to_reply' = Other(to_reply)
    /\ UNCHANGED <<env, exported, stopped_by, inputs, session, pc, result, exc, ui, stored>>

\* The agent that received the last message is to reply, and its
\* reply-generation call raises.
AgentReplyFails ==
    /\ pc \in {"chat", "chat2"}
    /\ check_termination(to_reply, chat[Len(chat)].content) = "reply"
    /\ calls' = calls + 1
    /\ turn_counter' = CountAfter(to_reply)
    /\ auto_reply' = [auto_reply EXCEPT ![to_reply] = @ + 1]
    /\ GenerationRaised
    /\ UNCHANGED <<env, exported, stopped_by, inputs, session, chat, to_reply>>

\* The agent that received the last message stops the chat: initiate_chat
\* returns the chat result to the driver, and the driver to its caller.
\* main.py goes on with customer.send(...), which the shopkeeper answers.
AgentExits ==
    /\ pc \in {"chat", "chat2"}
    /\ check_termination(to_reply, chat[Len(chat)].content) = "exit"
    /\ turn_counter' = CountAfter(to_reply)
    /\ auto_reply' = [auto_reply EXCEPT ![to_reply] = 0]
    /\ stopped_by' = StopReason(to_reply)
    /\ UNCHANGED <<env, exported, inputs, session, ui, calls>>
    /\ CASE session = "generate_dialogue" ->
                /\ ReturnToMain(ChatResult(chat), character1_name, character2_name,
                                situation, max_turns)
                /\ UNCHANGED <<chat, to_reply>>
         [] session = "main_py" /\ pc = "chat" ->
                /\ result' = ChatResult(chat)
                /\ chat' = Append(chat, Turn("B", ShopFollowUp))
                /\ to_reply' = "A"
                /\ pc' = "chat2"
                /\ UNCHANGED <<exc, stored>>
         [] OTHER ->
                /\ result' = ChatResult(chat)
                /\ pc' = "done"
                /\ UNCHANGED <<chat, to_reply, exc, stored>>

(* --------------------------- specification ---------------------------- *)

Next ==
    \/ LoadInterface
    \/ \E c1 \in Names, c2 \in Names, s \in Situations, n \in TurnInputs :
           SubmitForm(c1, c2, s, n)
    \/ LoadDialog
    \/ \E c1 \in Names, c2 \in Names, s \in Situations, t \in Phrases :
           CliCustom(c1, c2, s, t)
    \/ \E c1 \in Names, c2 \in Names, s \in Situations, t \in Phrases :
           CallSpecific(c1, c2, s, t)
    \/ CliFibonacci
    \/ CliInvalid
    \/ LoadMain
    \/ \E r \in Replies(session) : StarterReply(r)
    \/ StarterFails
    \/ \E r \in Replies(session) : AgentReplies(r)
    \/ AgentReplyFails
    \/ AgentExits
    \/ PrintDialogue

Spec == Init /\ [][Next]_vars

\* Every call returns and the program is single-threaded: whatever step is
\* possible is eventually taken.
FairSpec == Spec /\ WF_vars(Next)

(* ------------------- one UI session, script run by script run --------- *)

\* Names typed into the form over a session.
UiNames1 == {"a", "a_b"}
UiNames2 == {"c", "b_c"}

\* A session of the Streamlit app on a machine without AutoGen.
UiInit ==
    /\ Init
    /\ program = "interface_dilogue"
    /\ ~AUTOGEN_AVAILABLE
    /\ dotenv = "ok"

\* A click on "Save Dialogue to File", which is on the page once a dialogue
\* is displayed. Streamlit runs main() again: the form's submit button is
\* true only in the run its own submit triggers, so the block under
\* `if generate_button:`, the save button's branch included, is not run.
ClickSave ==
    /\ pc = "done"
    /\ save_clicks' = save_clicks + 1
    /\ LET generate_button == FALSE IN
       IF generate_button
       THEN /\ files' = Append(files, save_dialogue_to_file(result, character1_name,
                                                            character2_name, situation))
            /\ ui' = ui \cup {"Dialogue saved"}
            /\ UNCHANGED <<pc, download_data>>
       ELSE /\ files' = files
            /\ ui' = IF AUTOGEN_AVAILABLE /\ dotenv = "raises"
                     THEN {"Error initializing model configuration"}
                     ELSE {}
            /\ pc' = "form"
            /\ download_data' = ""
    /\ UNCHANGED <<env, inputs, loop, session, result, exc, calls, dialogue_history,
                   generated, stopped_by, stdout>>

\* time.time() moves on to the next second.
Tick ==
    /\ pc = "form"
    /\ now < MaxNow
    /\ now' = now + 1
    /\ UNCHANGED <<program, AUTOGEN_AVAILABLE, dotenv, inputs, loop, stored, exported,
                   session, pc, result, exc, ui, calls, stopped_by>>

NextUi ==
    \/ LoadInterface
    \/ /\ generated < MaxGenerations
       /\ \E c1 \in UiNames1, c2 \in UiNames2, n \in TurnInputs :
              SubmitForm(c1, c2, "math homework", n)
    \/ ClickSave
    \/ Tick

UiSpec == UiInit /\ [][NextUi]_vars

(* ------------------------- export of a dialogue ----------------------- *)

\* Replies carrying the characters JSON escapes.
ExportReplies == {"ok", "say \"hi\"", "a\\b"}

\* The chat history of a session with maximum n that ran to its end:
\* 2n - 1 turns, character1's saying ra and character2's rb.
ExportHistory(n, ra, rb) ==
    [i \in 1..(2 * n - 1) |-> IF i % 2 = 1 THEN Turn("A", ra) ELSE Turn("B", rb)]

\* A caller holds a dialogue that generate_dialogue returned.
ExportInit ==
    /\ program = "interface_dilogue"
    /\ session = "generate_dialogue"
    /\ pc = "export"
    /\ AUTOGEN_AVAILABLE \in BOOLEAN
    /\ dotenv = "ok"
    /\ character1_name \in Names \ {""}
    /\ character2_name \in Names \ {""}
    /\ situation = "math homework"
    /\ max_turns \in TurnInputs
    /\ termination_condition = ""
    /\ chat \in IF AUTOGEN_AVAILABLE
                THEN {ExportHistory(max_turns, ra, rb) : ra \in ExportReplies, rb \in ExportReplies}
                ELSE {<<>>}
    /\ turn_counter = 0
    /\ auto_reply = [a \in {"A", "B"} |-> 0]
    /\ to_reply = "B"
    /\ result \in IF AUTOGEN_AVAILABLE
                  THEN {ChatResult(chat)}
                  ELSE {generate_dialogue_fallback(character1_name, character2_name,
                                                   situation, max_turns, k) : k \in 1..3}
    /\ exc = "none"
    /\ ui = {}
    /\ calls = 0
    /\ dialogue_history = <<>>
    /\ now = 0
    /\ generated = 1
    /\ download_data = format_dialogue_text(result, character1_name, character2_name,
                                            situation)
    /\ stopped_by = "none"
    /\ stdout = ""
    /\ files = <<>>
    /\ save_clicks = 0

\* save_dialogue_to_file(dialogue, character1_name, character2_name, situation)
SaveDialogue ==
    /\ pc = "export"
    /\ files' = Append(files, save_dialogue_to_file(result, character1_name,
                                                    character2_name, situation))
    /\ pc' = "saved"
    /\ UNCHANGED <<env, inputs, loop, stored, session, result, exc, ui, calls,
                   stopped_by, stdout, save_clicks>>

ExportSpec == ExportInit /\ [][SaveDialogue]_vars

(* ------------------------------- claims ------------------------------- *)

\* The turn list of a returned dialogue.
Transcript(d) ==
    CASE d.type = "dict" -> d.messages
      [] d.type = "ChatResult" -> d.chat_history
      [] OTHER -> <<>>

\* The turns spoken by a participant: everything but system notes.
ParticipantTurns(ms) == SelectSeq(ms, LAMBDA m : m.role # "system")

\* generate_dialogue has returned to main.
Returned == session = "generate_dialogue" /\ pc = "done"

\* C1: a generate_dialogue session with maximum-turn bound N returns at most
\* N participant turns after the starter turn, N + 1 in total.
C1_AtMostNTurnsPastStarter ==
    Returned => Len(ParticipantTurns(Transcript(result))) <= max_turns + 1

\* C2: in a create_dialogue / generate_specific_dialogue session with phrase
\* p, a turn whose text contains p case-insensitively is the last turn of
\* the transcript, whoever spoke it.
C2_EndsAtFirstMatch ==
    session \in {"create_dialogue", "generate_specific_dialogue"} =>
        \A i \in 1..(Len(chat) - 1) :
            ~Contains(Lower(termination_condition), Lower(chat[i].content))

\* The sessions in which character1 (the teacher) starts the chat with
\* character2 (the student), and the fallback path.
TwoPartySessions ==
    {"generate_dialogue", "create_dialogue", "generate_specific_dialogue",
     "generate_fibonacci_dialogue"}

\* The first turn is a participant's, and the k-th participant turn is
\* attributed to participant A for odd k and to participant B for even k.
AlternatesFromA(ms) ==
    LET pt == ParticipantTurns(ms) IN
    /\ Len(ms) > 0 => ms[1].role # "system"
    /\ \A k \in 1..Len(pt) :
           pt[k].name = AgentName(IF k % 2 = 1 THEN "A" ELSE "B")
    /\ AgentName("A") # AgentName("B") =>
           \A k \in 1..(Len(pt) - 1) : pt[k].name # pt[k + 1].name

\* C3: every transcript, while it is built and when it is returned, starts
\* with one turn of participant A and then alternates B, A, B, ...; in the
\* chat history A's turns are the initiator's own ("assistant") and B's
\* the received ones ("user").
C3_StrictAlternation ==
    session \in TwoPartySessions =>
        /\ AlternatesFromA(chat)
        /\ AlternatesFromA(Transcript(result))
        /\ \A k \in 1..Len(chat) :
               chat[k].role = (IF k % 2 = 1 THEN "assistant" ELSE "user")

\* C3 witness: an AutoGen-path session has returned a transcript of at
\* least four turns between two differently named participants.
C3_Witness ==
    /\ Returned
    /\ result.type = "ChatResult"
    /\ Len(result.chat_history) >= 4
    /\ character1_name # character2_name

\* A reply-generation call of a generate_dialogue session raised.
GenerationFailed == "Error generating dialogue" \in ui

IsPrefix(a, b) == Len(a) <= Len(b) /\ SubSeq(b, 1, Len(a)) = a

Tagged(d) ==
    /\ d.type = "dict"
    /\ \E k \in 1..Len(d.messages) :
           d.messages[k].role = "system" /\ d.messages[k].content = PlaceholderNote

\* The turns of d come from the local fallback generator.
FromFallback(d) ==
    /\ d.type = "dict"
    /\ \E k \in 1..Len(d.messages) :
           /\ d.messages[k].role = "assistant"
           /\ d.messages[k].content =
                  "Well, regarding " \o situation
                      \o ", I was hoping we could work through it together."

\* C5: a result of generate_dialogue carries the placeholder marker exactly
\* when its turns come from the fallback generator, which is the case
\* exactly when no configuration was resolved or a generation call failed;
\* the same holds of the entry stored in dialogue_history.
C5_FallbackIsTagged ==
    Returned =>
        /\ Tagged(result) <=> FromFallback(result)
        /\ FromFallback(result) <=> (~model_config \/ GenerationFailed)
        /\ \A key \in DOMAIN dialogue_history :
               Tagged(dialogue_history[key].dialogue) <=> FromFallback(result)

\* C5 witness: a generation call failed in a configured session and the
\* placeholder result was returned.
C5_Witness == Returned /\ model_config /\ GenerationFailed /\ FromFallback(result)

\* A driver is between its first reply-generation call and its return.
Running == pc \in {"starter", "chat", "chat2"}

\* The most turns a chat can hold: every agent stops at its auto-reply
\* limit; main.py chats twice over the same history.
TurnLimit ==
    IF session = "main_py" THEN 4 * MaxAutoReply + 2 ELSE 2 * MaxAutoReply + 1

\* C6: every running session eventually stops, with its transcript
\* returned unless an exception ended it, and its chat never grows beyond
\* the turn limit (in a TurnBound session, beyond 2 * max_turns - 1).
C6_SessionStops ==
    /\ Running ~> ((pc = "done" /\ result.type # "None") \/ pc = "raised")
    /\ [](Len(chat) <= TurnLimit)
    /\ [](session = "generate_dialogue" => Len(chat) <= 2 * max_turns - 1)

\* C6 witness: a ContentMatch session in which no turn contained the
\* phrase has stopped and returned its transcript.
C6_Witness ==
    /\ session = "create_dialogue"
    /\ pc = "done"
    /\ result.type = "ChatResult"
    /\ Len(chat) = 2 * MaxAutoReply + 1
    /\ \A k \in 1..Len(chat) :
           /\ ~is_termination_msg(termination_condition, chat[k].content)
           /\ chat[k].content # TERMINATE

\* C7: once a configuration with an empty name or situation has been
\* submitted (Streamlit form, CLI option 2), no reply-generation call is
\* made, no driver runs, nothing is returned and nothing is stored.
C7_InvalidConfigRejected ==
    ( /\ \/ program = "interface_dilogue" /\ pc \notin {"load", "form"}
         \/ session = "create_dialogue"
      /\ character1_name = "" \/ character2_name = "" \/ situation = "" )
    => /\ calls = 0
       /\ ~Running
       /\ result = None
       /\ DOMAIN dialogue_history = {}

\* C8: for a configuration that passed validation, generate_dialogue ends
\* with a non-empty transcript, never with an exception.
C8_NonEmptyTranscript ==
    program = "interface_dilogue" =>
        /\ pc # "raised"
        /\ pc = "done" => Len(Transcript(result)) > 0

\* C9: when no configuration is resolved, the session of every entry point
\* of interface_dilogue.py and dialog.py completes with a tagged
\* placeholder transcript and raises nothing.
C9_ConfigMissingFallsBack ==
    (program # "main" /\ (~AUTOGEN_AVAILABLE \/ dotenv # "ok")) =>
        /\ pc # "raised"
        /\ pc = "done" => Tagged(result)

\* The phrase the session's substring predicate looks for.
SessionPhrase ==
    CASE session = "generate_fibonacci_dialogue" -> FibPhrase
      [] session = "main_py" -> ShopPhrase
      [] OTHER -> termination_condition

\* The session's substring predicate, as the code evaluates it.
SessionPredicate(content) ==
    CASE session = "generate_fibonacci_dialogue" -> student_is_termination_msg(content)
      [] session = "main_py" -> shopkeeper_is_termination_msg(content)
      [] OTHER -> is_termination_msg(termination_condition, content)

\* C10: on every message the holder of a substring predicate receives, the
\* predicate is true exactly when the lower-cased phrase occurs in the
\* lower-cased text.
C10_CaseInsensitiveMatch ==
    session \in {"create_dialogue", "generate_specific_dialogue",
                 "generate_fibonacci_dialogue", "main_py"} =>
        \A k \in 1..Len(chat) :
            chat[k].role = (IF PredicateHolder = "B" THEN "assistant" ELSE "user") =>
                (SessionPredicate(chat[k].content)
                     <=> Contains(Lower(SessionPhrase), Lower(chat[k].content)))

\* The backslashes that stand right before position i of t.
BackslashRun(t, i) ==
    CHOOSE k \in 0..(i - 1) :
        /\ \A j \in (i - k)..(i - 1) : SubSeq(t, j, j) = "\\"
        /\ k = i - 1 \/ SubSeq(t, i - k - 1, i - k - 1) # "\\"

\* What the character at position i of a JSON string stands for: an
\* escaped character for itself (n for a newline), the backslash that
\* escapes it for nothing.
JsonPiece(t, i) ==
    LET c == SubSeq(t, i, i) IN
    IF BackslashRun(t, i) % 2 = 1 THEN (IF c = "n" THEN "\n" ELSE c)
    ELSE IF c = "\\" THEN ""
    ELSE c

\* Reading a JSON string back, positions lo..hi.
RECURSIVE JsonUnescape(_, _, _)
JsonUnescape(t, lo, hi) ==
    IF lo > hi THEN ""
    ELSE IF lo = hi THEN JsonPiece(t, lo)
    ELSE JsonUnescape(t, lo, (lo + hi) \div 2)
             \o JsonUnescape(t, (lo + hi) \div 2 + 1, hi)

json_load_str(t) == JsonUnescape(t, 2, Len(t) - 1)

\* The turn sequence read back from an export record.
ParsedMessages(text) ==
    [i \in 1..Len(text.messages) |->
        [key \in DOMAIN text.messages[i] |-> json_load_str(text.messages[i][key])]]

\* C11: the messages parsed back from the record save_dialogue_to_file
\* wrote are the turns of the exported transcript: same length, same order,
\* same speaker, role and content.
C11_RoundTrip ==
    \A f \in 1..Len(files) :
        ParsedMessages(files[f].text) = Transcript(result)

\* Two stored entries were generated by the fallback from the same inputs.
SameFallbackInputs(e1, e2) ==
    /\ e1.dialogue.type = "dict"
    /\ e2.dialogue.type = "dict"
    /\ e1.character1 = e2.character1
    /\ e1.character2 = e2.character2
    /\ e1.situation = e2.situation
    /\ e1.max_turns = e2.max_turns

\* C12: two calls of generate_dialogue_fallback with the same names,
\* situation and maximum return the same transcript, starter included:
\* any two stored fallback dialogues of the same inputs are equal.
C12_FallbackDeterministic ==
    \A k1 \in DOMAIN dialogue_history, k2 \in DOMAIN dialogue_history :
        SameFallbackInputs(dialogue_history[k1], dialogue_history[k2]) =>
            dialogue_history[k1].dialogue = dialogue_history[k2].dialogue

\* C13: every click on "Save Dialogue to File" has written a file, and
\* after a click the success message is shown.
C13_SaveClickSaves ==
    /\ Len(files) = save_clicks
    /\ save_clicks > 0 => "Dialogue saved" \in ui

\* C15: no stored dialogue is overwritten: dialogue_history holds as many
\* entries as dialogues were generated.
C15_UniqueKeys ==
    Cardinality(DOMAIN dialogue_history) = generated

\* One "speaker: content" line for each of the turns, in order.
RECURSIVE SpeakerLines(_)
SpeakerLines(turns) ==
    IF turns = <<>> THEN ""
    ELSE Head(turns).name \o ": " \o Head(turns).content \o "\n\n"
             \o SpeakerLines(Tail(turns))

\* C14: the flattened text made of a returned dialogue is its heading
\* followed by one "speaker: content" line per participant turn, in
\* transcript order, and nothing for system turns: the download text of
\* interface_dilogue.py, and what dialog.py's main has printed once it is
\* past its print statement.
C14_OneLinePerTurn ==
    /\ Returned =>
           download_data =
               "Dialogue between " \o character1_name \o " and " \o character2_name
                   \o "\n" \o "Situation: " \o situation \o "\n\n"
                   \o SpeakerLines(ParticipantTurns(Transcript(result)))
    /\ (program = "dialog_main" /\ result.type # "None" /\ pc # "done") =>
           stdout = "\nFULL DIALOGUE:\n\n"
                        \o SpeakerLines(ParticipantTurns(Transcript(result))) \o "\n"

\* The drivers that attach a configured predicate to character2.
ConfiguredSessions ==
    {"generate_dialogue", "create_dialogue", "generate_specific_dialogue"}

\* C16: when the configured predicate of such a session has stopped the
\* chat, it was character2 that stopped it, on a message of character1: the
\* returned transcript ends with a turn of participant A and has an odd
\* number of turns, and in a TurnBound session the predicate has run once
\* per turn of A, max_turns times.
C16_EndsWithTurnOfA ==
    (session \in ConfiguredSessions /\ stopped_by = "predicate") =>
        /\ to_reply = "B"
        /\ Transcript(result) = chat
        /\ Len(chat) % 2 = 1
        /\ chat[Len(chat)].role = "assistant"
        /\ chat[Len(chat)].name = AgentName("A")
        /\ session = "generate_dialogue" =>
               /\ turn_counter = max_turns
               /\ Len(chat) = 2 * turn_counter - 1

\* C16 witness: a ContentMatch session of at least three turns was stopped
\* by its predicate.
C16_Witness ==
    /\ session = "generate_specific_dialogue"
    /\ stopped_by = "predicate"
    /\ Len(chat) >= 3

\* C17: with the empty string as termination phrase, the chat never holds
\* more than the starter turn, character2 makes no reply-generation call,
\* and what the driver returns is the starter turn alone, the predicate
\* having stopped the chat.
C17_EmptyPhraseStopsAtStarter ==
    (session \in {"create_dialogue", "generate_specific_dialogue"}
         /\ termination_condition = "") =>
        /\ Len(chat) <= 1
        /\ calls <= 1
        /\ result.type # "None" =>
               /\ result = ChatResult(chat)
               /\ Len(chat) = 1
               /\ chat[1].role = "assistant"
               /\ stopped_by = "predicate"

\* C17 witness: create_dialogue was given the empty phrase and has
\* returned.
C17_Witness ==
    /\ session = "create_dialogue"
    /\ termination_condition = ""
    /\ result.type = "ChatResult"

====
